---- MODULE Spec2Model ----
(***************************************************************************)
(* Model of mpv's libavcodec audio output, audio/out/ao_lavc.c: init,      *)
(* uninit, get_space, write_packet, encode_audio_and_write, encode, play.  *)
(*                                                                         *)
(* Time.  The C code keeps pts as double seconds.  Here every such value   *)
(* is an integer number of sample periods, i.e. seconds * samplerate, so   *)
(* "samples / (double) ao->samplerate" is the sample count itself and the  *)
(* 30 second discontinuity threshold is 30 * samplerate.  All inputs are   *)
(* whole sample periods, so the arithmetic is exact.                       *)
(*                                                                         *)
(* A rational time base is a pair <<num, den>>.                            *)
(***************************************************************************)
EXTENDS Integers, Sequences, FiniteSets, TLC

\* ------------------------------------------------------------------ bounds

\* ao->samplerate, as negotiated by init (line 109-112); large enough for a
\* quarter of a second to hold more than one frame of the smallest size.
samplerate == 9
\* Largest number of whole frames in one batch handed to play.
MaxWhole == 2
\* Number of play calls explored per session.
MaxPlays == 2
\* Number of uninit calls explored per session.
MaxUninit == 2
\* Largest number of frames the encoder keeps buffered (lookahead).
MaxDelay == 2
\* Integers x in -MaxX..MaxX are fed to the rescale round trip.
MaxX == 6

\* --------------------------------------------------------------- constants

\* AV_NOPTS_VALUE / MP_NOPTS_VALUE: INT64_MIN in C; here a value below every
\* pts the bounded model can produce.
AV_NOPTS_VALUE == -(2^30)
MP_NOPTS_VALUE == AV_NOPTS_VALUE

\* The discontinuity threshold of play, in seconds.
DiscontinuitySeconds == 30

\* ------------------------------------------------------------- time bases

num(q) == q[1]
den(q) == q[2]

\* av_rescale_rnd(a, b, c, AV_ROUND_NEAR_INF): a * b / c rounded to nearest,
\* halves away from zero.
av_rescale_rnd(a, b, c) ==
    IF a < 0 THEN -(((-a) * b + c \div 2) \div c)
             ELSE (a * b + c \div 2) \div c

\* av_rescale_q(a, bq, cq): a in units of bq, converted to units of cq.
av_rescale_q(a, bq, cq) ==
    av_rescale_rnd(a, num(bq) * den(cq), num(cq) * den(bq))

\* The zero-initialised AVRational of talloc_zero: worst_time_base not chosen.
NoBase == <<0, 0>>

choose_finer(codec_tb, stream_tb) ==
    IF num(codec_tb) * den(stream_tb) >= num(stream_tb) * den(codec_tb)
    THEN [base |-> stream_tb, is_stream |-> 1]
    ELSE [base |-> codec_tb, is_stream |-> 0]

\* play, lines 422-443: the base with the longer tick; the codec's on a tie.
worst_time_base_of(codec_tb, stream_tb) ==
    IF num(codec_tb) * den(stream_tb) >= num(stream_tb) * den(codec_tb)
    THEN [base |-> codec_tb, is_stream |-> 0]
    ELSE [base |-> stream_tb, is_stream |-> 1]

\* floor(t_seconds * den / num + 0.5) for t = ticks / samplerate seconds.
to_time_base(ticks, tb) ==
    (2 * ticks * den(tb) + samplerate * num(tb)) \div (2 * samplerate * num(tb))

\* ------------------------------------------------------------------ state

VARIABLES
    aoState,   \* "new" before init; then "open", "failed" or "unavailable"
    ac,        \* struct priv
    ectx,      \* struct encode_lavc_context: the shared timing context
    enc,       \* the encoder behind ac->codec
    mux,       \* packets handed to encode_lavc_write_frame, in order
    call,      \* what the most recent driver call did and returned
    hist,      \* calls made so far and NULL-frame submissions so far
    rt,        \* the rescale round trip under test
    sync       \* ectx->lock and the position of each thread inside a call

vars == <<aoState, ac, ectx, enc, mux, call, hist, rt, sync>>

\* Frame sizes codec->frame_size can take after encode_lavc_open_codec.
FrameSizes == {2, 3, 10}

\* Stream time bases the muxer may settle on when the header is written.
StreamBases == {<<1, samplerate>>, <<1, 1>>, <<1, 2 * samplerate>>}

\* Input pts values fed by the player, in sample periods; 3 s, 33 s, 50 s.
PtsInputs == {MP_NOPTS_VALUE, 3 * samplerate, 33 * samplerate,
              33 * samplerate + 1, 50 * samplerate}

\* Sample counts of a batch for frame size f.
SampleCounts(f) ==
    {k * f + r : k \in 0..MaxWhole, r \in {0, 1, f \div 2, f - 1}}

NoCall == [op |-> "none", ready |-> FALSE, samples |-> 0, final |-> FALSE,
           ret |-> 0, frames |-> <<>>, eos |-> 0, pts |-> 0, outpts |-> 0,
           buflen |-> 0, before |-> <<>>, after |-> <<>>]

NoRt == [stage |-> "idle"]

\* No call in progress on either thread and ectx->lock free.  pc is the
\* audio output's position, vpc the other stream's; acq counts the lock
\* acquisitions of the current call, bare the timing-context accesses made
\* without the lock, mid is set while play's update of the timing context
\* is half done, torn once the other stream saw it half done.
NoSync == [lock |-> "free", pc |-> "idle", op |-> "none", outcome |-> "ok",
           samples |-> 0, final |-> FALSE, ready |-> FALSE, ret |-> 0,
           acq |-> 0, bare |-> 0, mid |-> FALSE,
           vpc |-> "idle", vo |-> 0, vwaited |-> FALSE, torn |-> FALSE]

\* struct priv after talloc_zero (init, line 88).
priv_zero ==
    [stream |-> FALSE, codec_time_base |-> NoBase, stream_time_base |-> NoBase,
     aframesize |-> 0, aframecount |-> 0, savepts |-> 0, framecount |-> 0,
     lastpts |-> 0, expected_next_pts |-> 0,
     worst_time_base |-> NoBase, worst_time_base_is_stream |-> 0,
     shutdown |-> FALSE]

\* The shared context as encode_lavc_init leaves it.
ectx_init(rawts, copyts, offset) ==
    [started |-> FALSE, rawts |-> rawts, copyts |-> copyts,
     discontinuity_pts_offset |-> MP_NOPTS_VALUE, next_in_pts |-> 0,
     last_audio_in_pts |-> MP_NOPTS_VALUE, samples_since_last_pts |-> 0,
     audio_pts_offset |-> MP_NOPTS_VALUE, offset |-> offset]

\* An encoder: which call shape the build uses, how many frames it keeps
\* before it starts to emit, whether its packets carry the frame's pts.
enc_init(newapi, delay, echo) ==
    [newapi |-> newapi, delay |-> delay, echo |-> echo,
     q |-> <<>>, draining |-> FALSE]

SessionInit(modes, apis, delays, echos, offsets) ==
    /\ aoState = "new"
    /\ ac = priv_zero
    /\ \E m \in modes, o \in offsets : ectx = ectx_init(m[1], m[2], o)
    /\ \E a \in apis, d \in delays, e \in echos : enc = enc_init(a, d, e)
    /\ mux = <<>>
    /\ call = NoCall
    /\ hist = [plays |-> 0, uninits |-> 0, eos |-> 0]
    /\ sync = NoSync

\* ------------------------------------------------------------- operations
\* The C functions are operators on a machine record
\*   S = [ac, ectx, enc, mux, frames, eos]
\* frames logs the data frames submitted during the current call and eos
\* counts its NULL-frame (end-of-stream) submissions.

NoFrame == [data |-> FALSE, pts |-> AV_NOPTS_VALUE]

\* write_packet, lines 213-253.  packet.pts is in the codec time base, or
\* AV_NOPTS_VALUE when the encoder did not set it.
write_packet(S, packet) ==
    LET pts == IF packet.pts # AV_NOPTS_VALUE
               THEN av_rescale_q(packet.pts, S.ac.codec_time_base,
                                 S.ac.stream_time_base)
               ELSE IF S.ac.savepts # MP_NOPTS_VALUE
               THEN av_rescale_q(S.ac.savepts, S.ac.codec_time_base,
                                 S.ac.stream_time_base)
               ELSE AV_NOPTS_VALUE
    IN  [S EXCEPT !.ac.savepts = AV_NOPTS_VALUE,
                  !.mux = Append(@, [pts |-> pts, enc_pts |-> packet.pts,
                                     src |-> packet.src,
                                     savepts |-> S.ac.savepts,
                                     flush |-> S.eos > 0])]

\* The packet the encoder emits for the oldest frame it holds; src is the
\* pts of the frame whose samples it carries (not visible to the C code).
enc_packet(S) ==
    [pts |-> IF S.enc.echo THEN Head(S.enc.q) ELSE AV_NOPTS_VALUE,
     src |-> Head(S.enc.q)]

\* Whether avcodec_receive_packet has a packet: a draining encoder gives up
\* everything it holds, otherwise only what exceeds its lookahead.
enc_has_packet(S) ==
    IF S.enc.draining THEN Len(S.enc.q) > 0 ELSE Len(S.enc.q) > S.enc.delay

\* Lines 292-298 / 314-320: one packet came out; note the pts to fall back
\* on and forward the packet.
take_packet(S, frame) ==
    LET pkt == enc_packet(S)
        S1  == [S EXCEPT !.enc.q = Tail(@)]
        S2  == IF frame.data /\ S1.ac.savepts = AV_NOPTS_VALUE
               THEN [S1 EXCEPT !.ac.savepts = frame.pts]
               ELSE S1
    IN  write_packet(S2, pkt)

\* Lines 270-299: receive packets until EAGAIN or EOF.
RECURSIVE receive_loop(_, _)
receive_loop(S, frame) ==
    IF enc_has_packet(S) THEN receive_loop(take_packet(S, frame), frame)
                         ELSE S

\* avcodec_send_frame / the input half of avcodec_encode_audio2.
enc_send(S, frame) ==
    IF frame.data THEN [S EXCEPT !.enc.q = Append(@, frame.pts)]
                  ELSE [S EXCEPT !.enc.draining = TRUE]

\* Lines 300-321: the combined call returns at most one packet.
encode_audio2_once(S, frame) ==
    LET S1 == enc_send(S, frame)
    IN  IF enc_has_packet(S1) THEN take_packet(S1, frame) ELSE S1

\* Lines 261-299: send, then receive until the encoder has nothing more.
send_receive(S, frame) == receive_loop(enc_send(S, frame), frame)

\* encode_audio_and_write, lines 255-322.  fail: the encoder returns a
\* negative status for this submission.
encode_audio_and_write(S, frame, fail) ==
    IF fail THEN S
    ELSE IF S.enc.newapi THEN send_receive(S, frame)
                         ELSE encode_audio2_once(S, frame)

frame_pts_from_count(S, apts, realapts) ==
    to_time_base(realapts, S.ac.codec_time_base)

\* The pts encode gives a data frame before the monotonicity check
\* (lines 349-355).
frame_pts_of(S, apts, realapts) ==
    IF S.ectx.rawts \/ S.ectx.copyts
    THEN to_time_base(apts, S.ac.codec_time_base)
    ELSE to_time_base(realapts, S.ac.codec_time_base)

clamp_never(lastpts, frame_pts) == FALSE

\* Line 358: the frame does not advance past the previous one.
must_clamp(lastpts, frame_pts) ==
    lastpts # AV_NOPTS_VALUE /\ frame_pts <= lastpts

\* encode, lines 349-366: the timestamps of one data frame.  pts0 is
\* frame->pts as first computed, ref its value in worst_time_base, last the
\* value stored in ac->lastpts and pts the frame->pts handed to the encoder.
frame_stamp(S, apts, realapts) ==
    LET pts0  == frame_pts_of(S, apts, realapts)
        ref   == av_rescale_q(pts0, S.ac.codec_time_base, S.ac.worst_time_base)
        clamp == must_clamp(S.ac.lastpts, ref)
    IN  [apts |-> apts, realapts |-> realapts, prev |-> S.ac.lastpts,
         pts0 |-> pts0, ref |-> ref,
         last |-> IF clamp THEN S.ac.lastpts + 1 ELSE ref,
         pts |-> IF clamp
                 THEN av_rescale_q(S.ac.lastpts + 1, S.ac.worst_time_base,
                                   S.ac.codec_time_base)
                 ELSE pts0]

\* The log entry of a submitted data frame (not part of the C state).
log_frame(S, st, bufpos, nb_samples, fail, muxlen) ==
    [S EXCEPT !.frames = Append(@,
        [bufpos |-> bufpos, nb_samples |-> nb_samples, apts |-> st.apts,
         realapts |-> st.realapts, prev |-> st.prev, pts0 |-> st.pts0,
         ref |-> st.ref, last |-> st.last, pts |-> st.pts, failed |-> fail,
         written |-> Len(S.mux) - muxlen])]

\* encode with data, lines 332-370, given the frame's timestamps st.
encode_data(S, st, bufpos, fail) ==
    log_frame(
        encode_audio_and_write(
            [S EXCEPT !.ac.aframecount = @ + 1,
                      !.ectx.audio_pts_offset = st.realapts - st.apts,
                      !.ac.lastpts = st.last],
            [data |-> TRUE, pts |-> st.pts], fail),
        st, bufpos, S.ac.aframesize, fail, Len(S.mux))

\* encode, lines 325-374.  data: whether a sample buffer is passed; bufpos
\* is the offset of that buffer in the batch (for the log only).
encode(S, apts, data, bufpos, fail) ==
    IF data
    THEN encode_data(S, frame_stamp(S, apts,
                                    S.ac.aframecount * S.ac.aframesize),
                     bufpos, fail)
    ELSE encode_audio_and_write([S EXCEPT !.ac.aframecount = @ + 1,
                                          !.eos = @ + 1],
                                NoFrame, fail)

\* Whether the copy-timestamp branch applies (lines 463, 497, 194).
copy_mode(S) == ~S.ectx.rawts /\ S.ectx.copyts

\* Lines 395-396 and 416-420: the batch's input pts; a missing one is
\* synthesized from expected_next_pts.  Adding the sample offset to
\* MP_NOPTS_VALUE leaves it MP_NOPTS_VALUE in double arithmetic.
input_pts(S) ==
    IF S.ectx.last_audio_in_pts = MP_NOPTS_VALUE
    THEN S.ac.expected_next_pts
    ELSE S.ectx.last_audio_in_pts + S.ectx.samples_since_last_pts

buffer_no_padding(f, samples, final) == samples

\* Lines 403-414: a final chunk that is no multiple of the frame size is
\* copied into a buffer with aframesize - 1 samples of silence appended.
buffer_samples(f, samples, final) ==
    IF final /\ samples % f # 0 THEN samples + (f - 1) ELSE samples

\* Lines 422-443: choose worst_time_base once.
select_worst_time_base(S) ==
    IF den(S.ac.worst_time_base) = 0
    THEN LET w == worst_time_base_of(S.ac.codec_time_base,
                                     S.ac.stream_time_base)
         IN  [S EXCEPT !.ac.worst_time_base = w.base,
                       !.ac.worst_time_base_is_stream = w.is_stream]
    ELSE S

is_discontinuity_ge(deviation) ==
    deviation >= DiscontinuitySeconds * samplerate
    \/ -deviation >= DiscontinuitySeconds * samplerate

\* Line 469: fabs(deviation) > 30 seconds.
is_discontinuity(deviation) ==
    deviation > DiscontinuitySeconds * samplerate
    \/ -deviation > DiscontinuitySeconds * samplerate

offset_sign_swapped(off, next_in_pts, pts) ==
    IF off = MP_NOPTS_VALUE THEN pts - next_in_pts
    ELSE IF is_discontinuity(pts + off - next_in_pts) THEN next_in_pts - pts
    ELSE off

\* Lines 465-474: the discontinuity offset after this batch's check.
fixed_discontinuity_offset(off, next_in_pts, pts) ==
    IF off = MP_NOPTS_VALUE THEN next_in_pts - pts
    ELSE IF is_discontinuity(pts + off - next_in_pts) THEN next_in_pts - pts
    ELSE off

has_samples_left(samples, bufpos, f) == samples - bufpos > 0

has_more_than_a_frame(samples, bufpos, f) == samples - bufpos > f

\* Line 485: a whole frame is left in the buffer.
has_whole_frame(samples, bufpos, f) == samples - bufpos >= f

\* Lines 485-491: one encode call per whole frame left in the buffer.
\* failAt: the position in this batch of the frame the encoder fails on
\* (0: none).
RECURSIVE play_loop(_, _, _, _, _)
play_loop(S, outpts, bufpos, samples, failAt) ==
    IF has_whole_frame(samples, bufpos, S.ac.aframesize)
    THEN play_loop(encode(S, outpts + bufpos, TRUE, bufpos,
                          Len(S.frames) + 1 = failAt),
                   outpts, bufpos + S.ac.aframesize, samples, failAt)
    ELSE [S |-> S, bufpos |-> bufpos]

taken_padded(bufpos, orig_samples) == bufpos

\* Line 505: FFMIN(bufpos, orig_samples).
taken_of(bufpos, orig_samples) ==
    IF bufpos < orig_samples THEN bufpos ELSE orig_samples

\* Lines 463-477: check and apply the discontinuity offset.
fix_discontinuity(S, pts) ==
    IF copy_mode(S)
    THEN [S EXCEPT !.ectx.discontinuity_pts_offset =
             fixed_discontinuity_offset(@, S.ectx.next_in_pts, pts)]
    ELSE S

\* Lines 476-480: the batch's output pts before the encoder offset.
output_pts(S, pts) ==
    IF copy_mode(S) THEN pts + S.ectx.discontinuity_pts_offset ELSE pts

raise_always(S) ==
    IF copy_mode(S)
    THEN [S EXCEPT !.ectx.next_in_pts =
             S.ac.expected_next_pts + S.ectx.discontinuity_pts_offset]
    ELSE S

\* Lines 497-501: raise the next allowed input pts.
raise_next_in_pts(S) ==
    IF copy_mode(S) /\ S.ac.expected_next_pts + S.ectx.discontinuity_pts_offset
                          > S.ectx.next_in_pts
    THEN [S EXCEPT !.ectx.next_in_pts =
             S.ac.expected_next_pts + S.ectx.discontinuity_pts_offset]
    ELSE S

\* Lines 493-520, after the loop L = [S, bufpos].
play_finish(L, orig_samples, pts, outpts, buflen) ==
    [S |-> [raise_next_in_pts([L.S EXCEPT !.ac.expected_next_pts =
                                              pts + L.bufpos])
              EXCEPT !.ectx.samples_since_last_pts =
                         @ + taken_of(L.bufpos, orig_samples)],
     ret |-> taken_of(L.bufpos, orig_samples), ready |-> TRUE, pts |-> pts,
     outpts |-> outpts, buflen |-> buflen, bufpos |-> L.bufpos]

\* Lines 482-491, with the discontinuity offset already fixed in S.
play_frames(S, orig_samples, final, failAt, pts) ==
    play_finish(
        play_loop(S, output_pts(S, pts) + S.ectx.offset, 0,
                  buffer_samples(S.ac.aframesize, orig_samples, final),
                  failAt),
        orig_samples, pts, output_pts(S, pts),
        buffer_samples(S.ac.aframesize, orig_samples, final))

play_ungated(S, orig_samples, final, failAt) ==
    play_frames(fix_discontinuity(select_worst_time_base(S), input_pts(S)),
                orig_samples, final, failAt, input_pts(S))

\* play, lines 378-521.
play(S, orig_samples, final, failAt) ==
    IF ~S.ectx.started
    THEN [S |-> S, ret |-> 0, ready |-> FALSE, pts |-> 0, outpts |-> 0,
          buflen |-> 0, bufpos |-> 0]
    ELSE play_frames(fix_discontinuity(select_worst_time_base(S),
                                       input_pts(S)),
                     orig_samples, final, failAt, input_pts(S))

\* uninit, lines 176-203, past the "!ac || ac->shutdown" test and with the
\* encoder started.  The pts passed to encode is unused for a NULL frame.
uninit_flush(S) ==
    LET S1 == IF S.ac.stream
              THEN encode(S, S.ac.expected_next_pts, FALSE, 0, FALSE)
              ELSE S
    IN  [S1 EXCEPT !.ac.shutdown = TRUE]

uninit_always_flush(S) ==
    IF ~S.ectx.started THEN S ELSE uninit_flush(S)

\* uninit, lines 176-203.
uninit(S) ==
    IF S.ac.shutdown THEN S
    ELSE IF ~S.ectx.started THEN S
    ELSE uninit_flush(S)

get_space_frames(S) == S.ac.framecount

\* get_space, lines 206-211.
get_space(S) == S.ac.aframesize * S.ac.framecount

\* ---------------------------------------------------------------- actions

Machine == [ac |-> ac, ectx |-> ectx, enc |-> enc, mux |-> mux,
            frames |-> <<>>, eos |-> 0]

Snapshot == [ac |-> ac, ectx |-> ectx, enc |-> enc, mux |-> mux]

\* What init leaves in struct priv on success (lines 117-160) for codec
\* frame size f; framecount is ceil(samplerate * 0.25 / f), at least 1.
priv_opened(f) ==
    [priv_zero EXCEPT !.stream = TRUE,
                      !.codec_time_base = <<1, samplerate>>,
                      !.stream_time_base = <<1, samplerate>>,
                      !.aframesize = f,
                      !.framecount =
                          LET c == (samplerate + 4 * f - 1) \div (4 * f)
                          IN  IF c > 1 THEN c ELSE 1,
                      !.savepts = AV_NOPTS_VALUE,
                      !.lastpts = AV_NOPTS_VALUE]

\* init, lines 86-172.  outcome: "unavailable" (line 93), "nostream"
\* (line 100, goto fail), "late" (a goto fail after the stream was
\* allocated: lines 126, 140, 162), "ok".
InitAo(outcome, f) ==
    /\ aoState = "new"
    /\ ac' = CASE outcome = "unavailable" -> priv_zero
               [] outcome = "nostream" -> [priv_zero EXCEPT !.shutdown = TRUE]
               [] outcome = "late" -> [priv_opened(f) EXCEPT !.shutdown = TRUE]
               [] OTHER -> priv_opened(f)
    /\ aoState' = CASE outcome = "ok" -> "open"
                    [] outcome = "unavailable" -> "unavailable"
                    [] OTHER -> "failed"
    /\ call' = [NoCall EXCEPT !.op = "init",
                              !.ret = IF outcome = "ok" THEN 0 ELSE -1]
    /\ UNCHANGED <<ectx, enc, mux, hist, rt, sync>>

\* encode_lavc_start succeeding for the first time: every expected stream
\* exists, the muxer writes its header and settles the stream time base.
EncodeLavcStart(stb) ==
    /\ aoState = "open"
    /\ ~ectx.started
    /\ ectx' = [ectx EXCEPT !.started = TRUE]
    /\ ac' = [ac EXCEPT !.stream_time_base = stb]
    /\ UNCHANGED <<aoState, enc, mux, call, hist, rt, sync>>

\* The player announcing the pts of the audio it is about to hand over.
SetAudioPts(p) ==
    /\ aoState = "open"
    /\ hist.uninits = 0
    /\ hist.plays < MaxPlays
    /\ ectx.last_audio_in_pts # p \/ ectx.samples_since_last_pts # 0
    /\ ectx' = [ectx EXCEPT !.last_audio_in_pts = p,
                            !.samples_since_last_pts = 0]
    /\ UNCHANGED <<aoState, ac, enc, mux, call, hist, rt, sync>>

\* Another stream of the session (video) raising the next allowed input pts
\* in its own locked section.
OtherStream(v) ==
    /\ aoState = "open"
    /\ hist.uninits = 0
    /\ v > ectx.next_in_pts
    /\ ectx' = [ectx EXCEPT !.next_in_pts = v]
    /\ UNCHANGED <<aoState, ac, enc, mux, call, hist, rt, sync>>

Play(samples, final, failAt) ==
    /\ aoState = "open"
    /\ hist.uninits = 0
    /\ hist.plays < MaxPlays
    /\ LET r == play(Machine, samples, final, failAt)
       IN  /\ ac' = r.S.ac
           /\ ectx' = r.S.ectx
           /\ enc' = r.S.enc
           /\ mux' = r.S.mux
           /\ call' = [op |-> "play", ready |-> r.ready, samples |-> samples,
                       final |-> final, ret |-> r.ret, frames |-> r.S.frames,
                       eos |-> r.S.eos, pts |-> r.pts, outpts |-> r.outpts,
                       buflen |-> r.buflen,
                       before |-> Snapshot,
                       after |-> [ac |-> r.S.ac, ectx |-> r.S.ectx,
                                  enc |-> r.S.enc, mux |-> r.S.mux]]
    /\ hist' = [hist EXCEPT !.plays = @ + 1]
    /\ UNCHANGED <<aoState, rt, sync>>

Uninit ==
    /\ aoState # "new"
    /\ hist.uninits < MaxUninit
    /\ LET S == uninit(Machine)
       IN  /\ ac' = S.ac
           /\ ectx' = S.ectx
           /\ enc' = S.enc
           /\ mux' = S.mux
           /\ call' = [NoCall EXCEPT !.op = "uninit",
                                     !.ready = ectx.started,
                                     !.eos = S.eos,
                                     !.before = Snapshot,
                                     !.after = [ac |-> S.ac, ectx |-> S.ectx,
                                                enc |-> S.enc, mux |-> S.mux]]
           /\ hist' = [hist EXCEPT !.uninits = @ + 1, !.eos = @ + S.eos]
    /\ UNCHANGED <<aoState, rt, sync>>

\* The core asking how much it may hand over.
GetSpace ==
    /\ aoState = "open"
    /\ call.op # "get_space"
    /\ call' = [NoCall EXCEPT !.op = "get_space",
                              !.ready = ectx.started,
                              !.ret = get_space(Machine),
                              !.before = Snapshot,
                              !.after = Snapshot]
    /\ UNCHANGED <<aoState, ac, ectx, enc, mux, hist, rt, sync>>

\* ------------------------------------------------- the calls step by step
\* init, play and uninit as sequences of steps around ectx->lock, run by
\* the audio output's thread while another stream takes the same lock.

\* init, lines 86-172: the step after pc.
init_next(pc, outcome) ==
    CASE pc = "init_enter" ->
             IF outcome = "unavailable" THEN "idle" ELSE "init_lock"
      [] pc = "init_lock" -> "init_body"
      [] pc = "init_body" ->
             IF outcome = "ok" THEN "init_unlock" ELSE "init_fail_unlock"
      [] pc = "init_unlock" -> "idle"
      [] pc = "init_fail_unlock" -> "init_fail_mark"
      [] OTHER -> "idle"

play_next_account_late(pc, ready) ==
    CASE pc = "play_lock" -> "play_check"
      [] pc = "play_check" ->
             IF ready THEN "play_timing" ELSE "play_early_unlock"
      [] pc = "play_early_unlock" -> "idle"
      [] pc = "play_timing" -> "play_unlock"
      [] pc = "play_unlock" -> "play_account"
      [] pc = "play_account" -> "play_report"
      [] OTHER -> "idle"

\* play, lines 378-521: the step after pc.
play_next(pc, ready) ==
    CASE pc = "play_lock" -> "play_check"
      [] pc = "play_check" ->
             IF ready THEN "play_timing" ELSE "play_early_unlock"
      [] pc = "play_early_unlock" -> "idle"
      [] pc = "play_timing" -> "play_account"
      [] pc = "play_account" -> "play_unlock"
      [] pc = "play_unlock" -> "play_report"
      [] OTHER -> "idle"

uninit_next_early_locked(pc, shutdown, ready) ==
    CASE pc = "uninit_enter" -> IF shutdown THEN "idle" ELSE "uninit_lock"
      [] pc = "uninit_lock" -> "uninit_check"
      [] pc = "uninit_check" -> IF ready THEN "uninit_flush" ELSE "idle"
      [] pc = "uninit_flush" -> "uninit_unlock"
      [] pc = "uninit_unlock" -> "uninit_mark"
      [] OTHER -> "idle"

\* uninit, lines 176-203: the step after pc.
uninit_next(pc, shutdown, ready) ==
    CASE pc = "uninit_enter" -> IF shutdown THEN "idle" ELSE "uninit_lock"
      [] pc = "uninit_lock" -> "uninit_check"
      [] pc = "uninit_check" ->
             IF ready THEN "uninit_flush" ELSE "uninit_early_unlock"
      [] pc = "uninit_early_unlock" -> "idle"
      [] pc = "uninit_flush" -> "uninit_unlock"
      [] pc = "uninit_unlock" -> "uninit_mark"
      [] OTHER -> "idle"

\* pthread_mutex_lock(&ectx->lock): lines 98, 184, 387.
LockSteps == {"init_lock", "uninit_lock", "play_lock"}

\* pthread_mutex_unlock(&ectx->lock): lines 165, 169, 188, 200, 391, 508.
UnlockSteps == {"init_unlock", "init_fail_unlock", "uninit_early_unlock",
                "uninit_unlock", "play_early_unlock", "play_unlock"}

\* encode_lavc_start(ectx): lines 186, 389.
CheckSteps == {"uninit_check", "play_check"}

\* Steps that read or write the timing context: play lines 395-501 and
\* 505-506, uninit lines 192-198.
TimingSteps == {"play_timing", "play_account", "uninit_flush"}

\* Steps on the driver's own data: the test at line 93, shutdown = true at
\* lines 170 and 202, the test at line 181, play's messages and return
\* value at lines 510-520.
LocalSteps == {"init_enter", "init_fail_mark", "uninit_enter", "uninit_mark",
               "play_report"}

\* The step after the current one of the call in progress.
ao_next(ready) ==
    CASE sync.op = "init" -> init_next(sync.pc, sync.outcome)
      [] sync.op = "play" -> play_next(sync.pc, ready)
      [] OTHER -> uninit_next(sync.pc, ac.shutdown, ready)

\* 1 if the running step touches the timing context without the lock.
bare_access == IF sync.lock = "ao" THEN 0 ELSE 1

\* The audio output enters init, play or uninit.
AoInit(outcome) ==
    /\ aoState = "new" /\ sync.pc = "idle" /\ sync.op = "none"
    /\ sync' = [sync EXCEPT !.pc = "init_enter", !.op = "init",
                            !.outcome = outcome, !.acq = 0]
    /\ UNCHANGED <<aoState, ac, ectx, enc, mux, call, hist, rt>>

AoPlay(samples, final) ==
    /\ aoState = "open" /\ sync.pc = "idle"
    /\ hist.uninits = 0
    /\ hist.plays < MaxPlays
    /\ sync' = [sync EXCEPT !.pc = "play_lock", !.op = "play",
                            !.samples = samples, !.final = final,
                            !.ready = FALSE, !.ret = 0, !.acq = 0]
    /\ hist' = [hist EXCEPT !.plays = @ + 1]
    /\ UNCHANGED <<aoState, ac, ectx, enc, mux, call, rt>>

AoUninit ==
    /\ aoState # "new" /\ sync.pc = "idle"
    /\ hist.uninits < MaxUninit
    /\ sync' = [sync EXCEPT !.pc = "uninit_enter", !.op = "uninit",
                            !.ready = FALSE, !.ret = 0, !.acq = 0]
    /\ hist' = [hist EXCEPT !.uninits = @ + 1]
    /\ UNCHANGED <<aoState, ac, ectx, enc, mux, call, rt>>

\* pthread_mutex_lock: waits until the lock is free.
AoLock ==
    /\ sync.pc \in LockSteps
    /\ sync.lock = "free"
    /\ sync' = [sync EXCEPT !.lock = "ao", !.acq = @ + 1,
                            !.pc = ao_next(sync.ready)]
    /\ UNCHANGED <<aoState, ac, ectx, enc, mux, call, hist, rt>>

\* pthread_mutex_unlock.
AoUnlock ==
    /\ sync.pc \in UnlockSteps
    /\ sync' = [sync EXCEPT !.lock = "free", !.pc = ao_next(sync.ready)]
    /\ UNCHANGED <<aoState, ac, ectx, enc, mux, call, hist, rt>>

\* encode_lavc_start(ectx) at lines 186 and 389.
AoCheck ==
    /\ sync.pc \in CheckSteps
    /\ sync' = [sync EXCEPT !.ready = ectx.started,
                            !.pc = ao_next(ectx.started)]
    /\ UNCHANGED <<aoState, ac, ectx, enc, mux, call, hist, rt>>

\* init, lines 100-163, for codec frame size 2.
AoInitBody ==
    /\ sync.pc = "init_body"
    /\ ac' = IF sync.outcome = "nostream" THEN priv_zero ELSE priv_opened(2)
    /\ aoState' = IF sync.outcome = "ok" THEN "open" ELSE "failed"
    /\ sync' = [sync EXCEPT !.pc = ao_next(sync.ready)]
    /\ UNCHANGED <<ectx, enc, mux, call, hist, rt>>

\* play, lines 395-501: everything but the count of samples taken.
AoPlayTiming ==
    /\ sync.pc = "play_timing"
    /\ LET r == play(Machine, sync.samples, sync.final, 0)
       IN  /\ ac' = r.S.ac
           /\ ectx' = [r.S.ectx EXCEPT !.samples_since_last_pts =
                                           ectx.samples_since_last_pts]
           /\ enc' = r.S.enc
           /\ mux' = r.S.mux
           /\ sync' = [sync EXCEPT !.ret = r.ret, !.mid = TRUE,
                                   !.bare = @ + bare_access,
                                   !.pc = ao_next(sync.ready)]
    /\ UNCHANGED <<aoState, call, hist, rt>>

\* play, lines 505-506: samples_since_last_pts += taken.
AoPlayAccount ==
    /\ sync.pc = "play_account"
    /\ ectx' = [ectx EXCEPT !.samples_since_last_pts = @ + sync.ret]
    /\ sync' = [sync EXCEPT !.mid = FALSE, !.bare = @ + bare_access,
                            !.pc = ao_next(sync.ready)]
    /\ UNCHANGED <<aoState, ac, enc, mux, call, hist, rt>>

\* uninit, lines 192-198: the flush.
AoUninitFlush ==
    /\ sync.pc = "uninit_flush"
    /\ LET S == uninit_flush(Machine)
       IN  /\ ac' = [S.ac EXCEPT !.shutdown = ac.shutdown]
           /\ ectx' = S.ectx
           /\ enc' = S.enc
           /\ mux' = S.mux
           /\ hist' = [hist EXCEPT !.eos = @ + S.eos]
    /\ sync' = [sync EXCEPT !.bare = @ + bare_access,
                            !.pc = ao_next(sync.ready)]
    /\ UNCHANGED <<aoState, call, rt>>

\* The steps on the driver's own data.
AoLocal ==
    /\ sync.pc \in LocalSteps
    /\ ac' = IF sync.pc \in {"init_fail_mark", "uninit_mark"}
             THEN [ac EXCEPT !.shutdown = TRUE] ELSE ac
    /\ aoState' = IF sync.pc = "init_enter" /\ sync.outcome = "unavailable"
                  THEN "unavailable" ELSE aoState
    /\ sync' = [sync EXCEPT !.pc = ao_next(sync.ready)]
    /\ UNCHANGED <<ectx, enc, mux, call, hist, rt>>

\* A step of the call in progress can be taken: ENABLED AoRun.
AoCanRun ==
    /\ sync.pc # "idle"
    /\ sync.pc \in LockSteps => sync.lock = "free"

AoRun ==
    \/ AoLock \/ AoUnlock \/ AoCheck \/ AoInitBody \/ AoPlayTiming
    \/ AoPlayAccount \/ AoUninitFlush \/ AoLocal

\* The other stream: it takes ectx->lock, raises next_in_pts and releases
\* the lock.
VoWant ==
    /\ sync.vpc = "idle"
    /\ sync.vo < MaxPlays
    /\ sync' = [sync EXCEPT !.vpc = "vo_lock", !.vo = @ + 1,
                            !.vwaited = (sync.lock = "ao")]
    /\ UNCHANGED <<aoState, ac, ectx, enc, mux, call, hist, rt>>

VoLock ==
    /\ sync.vpc = "vo_lock"
    /\ sync.lock = "free"
    /\ sync' = [sync EXCEPT !.lock = "vo", !.vpc = "vo_write"]
    /\ UNCHANGED <<aoState, ac, ectx, enc, mux, call, hist, rt>>

VoWrite ==
    /\ sync.vpc = "vo_write"
    /\ ectx' = [ectx EXCEPT !.next_in_pts =
                   IF 10 * samplerate * sync.vo > @
                   THEN 10 * samplerate * sync.vo ELSE @]
    /\ sync' = [sync EXCEPT !.vpc = "vo_unlock", !.torn = @ \/ sync.mid]
    /\ UNCHANGED <<aoState, ac, enc, mux, call, hist, rt>>

VoUnlock ==
    /\ sync.vpc = "vo_unlock"
    /\ sync' = [sync EXCEPT !.lock = "free", !.vpc = "idle"]
    /\ UNCHANGED <<aoState, ac, ectx, enc, mux, call, hist, rt>>

VoRun == VoLock \/ VoWrite \/ VoUnlock

\* ---------------------------------------------------------- specifications

InitOutcomes == {"ok", "unavailable", "nostream", "late"}

\* Timestamps: every timestamp mode, three stream time bases, input pts that
\* are missing, repeated, decreasing and jumping; the encoder emits one
\* packet per frame.
\* Batches <<samples, final>>: no frame, one frame, and a final chunk of
\* two frames of which the second is padded.
TsBatches(f) == {<<0, FALSE>>, <<f, FALSE>>, <<f + 1, TRUE>>}

InitTimestamps ==
    /\ SessionInit({<<FALSE, FALSE>>, <<FALSE, TRUE>>, <<TRUE, FALSE>>},
                   {TRUE}, {0}, {TRUE}, {0})
    /\ rt = NoRt

NextTimestamps ==
    \/ InitAo("ok", 2)
    \/ \E b \in StreamBases : EncodeLavcStart(b)
    \/ \E p \in PtsInputs : SetAudioPts(p)
    \/ OtherStream(10 * samplerate)
    \/ \E b \in TsBatches(ac.aframesize) : Play(b[1], b[2], 0)

SpecTimestamps == InitTimestamps /\ [][NextTimestamps]_vars

\* Timestamp sources: the modes with raw timestamps next to the default
\* one, with and without an encoder output offset.
InitSources ==
    /\ SessionInit({<<FALSE, FALSE>>, <<TRUE, FALSE>>, <<TRUE, TRUE>>},
                   {TRUE}, {0}, {TRUE}, {0, 3})
    /\ rt = NoRt

NextSources ==
    \/ InitAo("ok", 2)
    \/ EncodeLavcStart(<<1, samplerate>>)
    \/ \E p \in PtsInputs : SetAudioPts(p)
    \/ \E b \in TsBatches(ac.aframesize) : Play(b[1], b[2], 0)

SpecSources == InitSources /\ [][NextSources]_vars

\* Locking: the calls taken step by step, in default and copy mode, with
\* the other stream contending for ectx->lock.  Each thread is scheduled
\* again and again: one that can take a step eventually takes it.
InitLocking ==
    /\ SessionInit({<<FALSE, FALSE>>, <<FALSE, TRUE>>}, {TRUE}, {0}, {TRUE},
                   {0})
    /\ rt = NoRt

NextLocking ==
    \/ \E o \in InitOutcomes : AoInit(o)
    \/ EncodeLavcStart(<<1, samplerate>>)
    \/ \E b \in {<<2, FALSE>>, <<3, TRUE>>} : AoPlay(b[1], b[2])
    \/ AoUninit
    \/ AoLock \/ AoUnlock \/ AoCheck \/ AoInitBody \/ AoPlayTiming
    \/ AoPlayAccount \/ AoUninitFlush \/ AoLocal
    \/ VoWant \/ VoLock \/ VoWrite \/ VoUnlock

\* Weak fairness of the audio output's steps, with their enabling condition
\* AoCanRun spelled out, and weak fairness of the other stream's steps.
SpecLocking ==
    /\ InitLocking /\ [][NextLocking]_vars
    /\ ([]<>~AoCanRun \/ []<><<AoRun>>_vars)
    /\ WF_vars(VoRun)

\* Frame assembly: every frame size and batch length, final and non-final
\* chunks, before and after the encoder is ready.
InitFrames ==
    /\ SessionInit({<<FALSE, FALSE>>}, {TRUE}, {0}, {TRUE}, {0})
    /\ rt = NoRt

NextFrames ==
    \/ \E f \in FrameSizes : InitAo("ok", f)
    \/ EncodeLavcStart(<<1, samplerate>>)
    \/ \E n \in SampleCounts(ac.aframesize), final \in BOOLEAN :
           Play(n, final, 0)
    \/ GetSpace

SpecFrames == InitFrames /\ [][NextFrames]_vars

\* Encoder and shutdown: both encoder call shapes, every lookahead, packets
\* with and without pts, encoder failures, every outcome of init, repeated
\* uninit.
InitShutdown ==
    /\ SessionInit({<<FALSE, FALSE>>}, BOOLEAN, 0..MaxDelay, BOOLEAN, {0})
    /\ rt = NoRt

NextShutdown ==
    \/ \E o \in InitOutcomes : InitAo(o, 2)
    \/ \E b \in StreamBases : EncodeLavcStart(b)
    \/ \E k \in 1..MaxWhole, failAt \in 0..1 :
           Play(k * ac.aframesize, FALSE, failAt)
    \/ Uninit

SpecShutdown == InitShutdown /\ [][NextShutdown]_vars

\* The rescale round trip on its own.  Either the pair of bases is drawn
\* with A at least as coarse as B, or A is what play selects for a codec
\* and a stream base and B is the codec base, as in encode's clamp.
RtBases == {<<1, samplerate>>, <<1, 1>>, <<1, 2>>, <<1, 3>>, <<2, 3>>,
            <<3, 2>>, <<1, 1000>>, <<1001, 30000>>}

\* Base a ticks at least as slowly as base b.
coarser_or_equal(a, b) == num(a) * den(b) >= num(b) * den(a)

InitRescale ==
    /\ SessionInit({<<FALSE, FALSE>>}, {TRUE}, {0}, {TRUE}, {0})
    /\ \E x \in -MaxX..MaxX, a \in RtBases, b \in RtBases :
          \/ rt = [stage |-> "bases", via |-> "play", x |-> x,
                   codec |-> a, stream |-> b, A |-> NoBase, B |-> NoBase,
                   y |-> 0, z |-> 0]
          \/ /\ coarser_or_equal(a, b)
             /\ rt = [stage |-> "in", via |-> "any", x |-> x,
                      codec |-> NoBase, stream |-> NoBase, A |-> a, B |-> b,
                      y |-> 0, z |-> 0]

RtSelect ==
    /\ rt.stage = "bases"
    /\ rt' = [rt EXCEPT !.stage = "in",
                        !.A = worst_time_base_of(rt.codec, rt.stream).base,
                        !.B = rt.codec]
    /\ UNCHANGED <<aoState, ac, ectx, enc, mux, call, hist, sync>>

RtForth ==
    /\ rt.stage = "in"
    /\ rt' = [rt EXCEPT !.stage = "there",
                        !.y = av_rescale_q(rt.x, rt.A, rt.B)]
    /\ UNCHANGED <<aoState, ac, ectx, enc, mux, call, hist, sync>>

RtBack ==
    /\ rt.stage = "there"
    /\ rt' = [rt EXCEPT !.stage = "back",
                        !.z = av_rescale_q(rt.y, rt.B, rt.A)]
    /\ UNCHANGED <<aoState, ac, ectx, enc, mux, call, hist, sync>>

NextRescale == RtSelect \/ RtForth \/ RtBack

SpecRescale == InitRescale /\ [][NextRescale]_vars

\* ------------------------------------------------------------------ claims

\* The previous value of ac->lastpts seen by the i-th frame of the call.
PrevLastPts(i) ==
    IF i = 1 THEN call.before.ac.lastpts ELSE call.frames[i - 1].last

\* A frame's own pts in the reference base, recomputed from the state.
OwnRef(fr) ==
    av_rescale_q(fr.pts0, call.after.ac.codec_time_base,
                 call.after.ac.worst_time_base)

\* C1: over any sequence of play calls the value encode records in lastpts
\* for successive data frames is strictly increasing; each is the frame's
\* own rescaled pts when that exceeds the previous lastpts and the previous
\* lastpts + 1 otherwise.
C1_LastPtsStrictlyIncreasing ==
    (call.op = "play" /\ call.ready) =>
        /\ \A i \in 1..Len(call.frames) :
              LET fr == call.frames[i]
                  prev == PrevLastPts(i)
              IN  /\ prev # AV_NOPTS_VALUE => fr.last > prev
                  /\ fr.last = IF prev # AV_NOPTS_VALUE /\ OwnRef(fr) <= prev
                               THEN prev + 1
                               ELSE OwnRef(fr)
        /\ call.after.ac.lastpts = IF call.frames = <<>> THEN call.before.ac.lastpts
                        ELSE call.frames[Len(call.frames)].last

\* A second play call whose pts went backwards: one frame clamped to the
\* previous lastpts + 1, in a session whose reference base is the stream's.
C1_Witness ==
    /\ call.op = "play" /\ call.ready /\ hist.plays = 2
    /\ call.after.ac.worst_time_base_is_stream = 1
    /\ Len(call.frames) = 2
    /\ call.before.ac.lastpts # AV_NOPTS_VALUE
    /\ OwnRef(call.frames[1]) < call.before.ac.lastpts
    /\ call.frames[1].last = call.before.ac.lastpts + 1

\* C2: rescale(rescale(x, A, B), B, A) = x whenever A is at least as coarse
\* as B, and in particular for A the worst_time_base play selects and B the
\* codec time base.
C2_RescaleRoundTrip ==
    (rt.stage = "back" /\ (rt.via = "play" \/ coarser_or_equal(rt.A, rt.B)))
        => rt.z = rt.x

\* A negative x taken through a strictly finer codec base and back, with
\* the stream base selected by play.
C2_Witness ==
    /\ rt.stage = "back" /\ rt.via = "play"
    /\ rt.A = rt.stream /\ rt.A # rt.B
    /\ rt.x < 0 /\ rt.y # rt.x /\ rt.z = rt.x

\* ceil(n / f) for f > 0.
CeilDiv(n, f) == (n + f - 1) \div f

\* C3: a final chunk of n samples submits ceil(n / f) frames, the last one
\* reaching into the silence when n is no multiple of f, and play returns n.
C3_FinalChunkPadded ==
    (call.op = "play" /\ call.ready /\ call.final) =>
        /\ Len(call.frames) = CeilDiv(call.samples, ac.aframesize)
        /\ call.ret = call.samples
        /\ call.samples % ac.aframesize # 0 =>
              LET fr == call.frames[Len(call.frames)]
              IN  /\ fr.bufpos < call.samples
                  /\ fr.bufpos + fr.nb_samples > call.samples

\* f = 10, n = 25: three frames, 25 returned.
C3_Witness ==
    /\ call.op = "play" /\ call.ready /\ call.final
    /\ ac.aframesize = 10 /\ call.samples = 25
    /\ Len(call.frames) = 3 /\ call.ret = 25

\* C4: a non-final chunk of n samples submits floor(n / f) frames, returns
\* floor(n / f) * f <= n, adds the returned count to samples_since_last_pts
\* and leaves exactly n mod f samples to the caller; the frames cover the
\* returned samples without gap or overlap.
C4_NonFinalWholeFrames ==
    (call.op = "play" /\ call.ready /\ ~call.final) =>
        /\ Len(call.frames) = call.samples \div ac.aframesize
        /\ call.ret = (call.samples \div ac.aframesize) * ac.aframesize
        /\ call.ret <= call.samples
        /\ call.samples - call.ret = call.samples % ac.aframesize
        /\ call.after.ectx.samples_since_last_pts =
               call.before.ectx.samples_since_last_pts + call.ret
        /\ \A i \in 1..Len(call.frames) :
               call.frames[i].bufpos = (i - 1) * ac.aframesize

\* A non-final chunk of more than one frame with a leftover.
C4_Witness ==
    /\ call.op = "play" /\ call.ready /\ ~call.final
    /\ call.samples % ac.aframesize # 0
    /\ Len(call.frames) = 2
    /\ call.ret < call.samples
    /\ call.before.ectx.samples_since_last_pts > 0

\* The length of the buffer play slices: the caller's n samples, or the
\* scratch copy of n + aframesize - 1 samples on a padded final chunk.
BufferInUse ==
    IF call.final /\ call.samples % ac.aframesize # 0
    THEN call.samples + ac.aframesize - 1
    ELSE call.samples

\* C5: every frame play hands to the encoder has aframesize samples and
\* lies inside the buffer in use.
C5_FramesInsideBuffer ==
    call.op = "play" =>
        \A i \in 1..Len(call.frames) :
            LET fr == call.frames[i]
            IN  /\ fr.nb_samples = ac.aframesize
                /\ fr.bufpos >= 0
                /\ fr.bufpos + fr.nb_samples <= BufferInUse

\* A padded final chunk whose last frame ends on the last sample of the
\* scratch copy.
C5_Witness ==
    /\ call.op = "play" /\ call.final
    /\ call.samples % ac.aframesize = 1
    /\ Len(call.frames) = 2
    /\ call.frames[2].bufpos + call.frames[2].nb_samples = BufferInUse

\* C6: in copy-timestamp mode with the discontinuity offset unset, a play
\* call with input pts p sets the offset to next_in_pts - p, so the batch's
\* output pts before the encoder offset is next_in_pts.
C6_FirstDiscontinuityOffset ==
    (/\ call.op = "play" /\ call.ready
     /\ copy_mode(call.before)
     /\ call.before.ectx.discontinuity_pts_offset = MP_NOPTS_VALUE) =>
        LET p == input_pts(call.before)
            N == call.before.ectx.next_in_pts
        IN  /\ call.after.ectx.discontinuity_pts_offset = N - p
            /\ call.outpts = N
            /\ call.frames # <<>> => call.frames[1].apts = N + call.after.ectx.offset

\* next_in_pts = 10 s, p = 3 s: offset 7 s, output pts 10 s.
C6_Witness ==
    /\ call.op = "play" /\ call.ready /\ copy_mode(call.before)
    /\ call.before.ectx.discontinuity_pts_offset = MP_NOPTS_VALUE
    /\ call.before.ectx.next_in_pts = 10 * samplerate
    /\ input_pts(call.before) = 3 * samplerate
    /\ call.after.ectx.discontinuity_pts_offset = 7 * samplerate
    /\ call.frames # <<>>
    /\ call.frames[1].apts = 10 * samplerate

\* C7: in copy-timestamp mode with the discontinuity offset d set, a play
\* call with input pts p resets the offset to next_in_pts - p exactly when
\* |p + d - next_in_pts| > 30 s and leaves it alone otherwise.
C7_DiscontinuityRetrigger ==
    (/\ call.op = "play" /\ call.ready
     /\ copy_mode(call.before)
     /\ call.before.ectx.discontinuity_pts_offset # MP_NOPTS_VALUE) =>
        LET p == input_pts(call.before)
            N == call.before.ectx.next_in_pts
            d == call.before.ectx.discontinuity_pts_offset
            dev == p + d - N
        IN  IF dev > 30 * samplerate \/ dev < -(30 * samplerate)
            THEN call.after.ectx.discontinuity_pts_offset = N - p
            ELSE call.after.ectx.discontinuity_pts_offset = d

\* offset 7 s, next_in_pts 10 s, p = 50 s: the offset becomes -40 s.
C7_Witness ==
    /\ call.op = "play" /\ call.ready /\ copy_mode(call.before)
    /\ call.before.ectx.discontinuity_pts_offset = 7 * samplerate
    /\ call.before.ectx.next_in_pts = 10 * samplerate
    /\ input_pts(call.before) = 50 * samplerate
    /\ call.after.ectx.discontinuity_pts_offset = -(40 * samplerate)

\* C8 as stated: the end-of-stream submission happens at most once, two
\* uninit calls produce exactly one, and the second call changes nothing,
\* whatever init and the first call did.
C8_ShutdownExactlyOnce ==
    /\ hist.eos <= 1
    /\ hist.uninits >= 2 => hist.eos = 1
    /\ (call.op = "uninit" /\ hist.uninits >= 2) =>
           (call.eos = 0 /\ call.after = call.before)

\* C8 as the code has it: the end-of-stream submission happens at most
\* once; it has happened exactly when an uninit call found a successfully
\* initialised session's encoder ready, and that call set shutdown.  A call
\* with shutdown set (after a flush or after init failed) and a call that
\* finds the encoder not ready change nothing, the latter leaving shutdown
\* clear so that a later call still flushes.
C8_ShutdownAtMostOnce ==
    /\ hist.eos <= 1
    /\ hist.eos = IF aoState = "open" /\ ac.shutdown THEN 1 ELSE 0
    /\ call.op = "uninit" =>
           IF call.before.ac.shutdown \/ ~call.ready
           THEN call.eos = 0 /\ call.after = call.before
           ELSE call.after.ac.shutdown /\ call.eos = 1

\* Two uninit calls, one end-of-stream submission, made by the second call
\* after the first returned early.
C8_Witness ==
    /\ hist.uninits = 2 /\ hist.eos = 1
    /\ call.op = "uninit" /\ call.eos = 1
    /\ ~call.before.ac.shutdown

\* C9: the flush started by uninit forwards every packet the encoder still
\* holds to the muxer, in either encoder call shape.
C9_FlushDrainsEncoder ==
    (call.op = "uninit" /\ call.eos = 1) =>
        /\ call.after.enc.q = <<>>
        /\ Len(call.after.mux) = Len(call.before.mux) + Len(call.before.enc.q)

\* C10: when the encoder fails on a submitted frame, none of its packets
\* is forwarded, the frame is not submitted again, and play reports an
\* error (a negative return) instead of a consumed count.
C10_EncodeFailureSurfaced ==
    (call.op = "play" /\ \E i \in 1..Len(call.frames) : call.frames[i].failed)
    =>  /\ \A i \in 1..Len(call.frames) :
               call.frames[i].failed => call.frames[i].written = 0
        /\ \A i, j \in 1..Len(call.frames) :
               i # j => call.frames[i].bufpos # call.frames[j].bufpos
        /\ call.ret < 0

\* C11: a packet whose pts the encoder left unset is written with the pts
\* of the frame that produced it, rescaled to the stream time base; no
\* packet that came out of a data-frame submission is written without pts;
\* the saved pts is cleared after every forwarded packet.
C11_LostPtsRestored ==
    /\ \A i \in 1..Len(mux) :
          /\ mux[i].enc_pts = AV_NOPTS_VALUE =>
                mux[i].pts = av_rescale_q(mux[i].src, ac.codec_time_base,
                                          ac.stream_time_base)
          /\ ~mux[i].flush => mux[i].pts # AV_NOPTS_VALUE
    /\ mux # <<>> => ac.savepts = AV_NOPTS_VALUE

\* C12: worst_time_base is assigned once, by the first play call that finds
\* the encoder ready, to whichever of the encoder and stream time bases has
\* the longer tick (the encoder's on a tie); once assigned, no step of the
\* session changes it or worst_time_base_is_stream.
C12_WorstTimeBaseChosenOnce ==
    [][/\ ac.worst_time_base # NoBase =>
              /\ ac'.worst_time_base = ac.worst_time_base
              /\ ac'.worst_time_base_is_stream = ac.worst_time_base_is_stream
       /\ (call'.op = "play" /\ call'.ready /\ hist'.plays # hist.plays) =>
              ac'.worst_time_base # NoBase
       /\ (ac.worst_time_base = NoBase /\ ac'.worst_time_base # NoBase) =>
              /\ call'.op = "play" /\ call'.ready
              /\ hist'.plays # hist.plays
              /\ IF num(ac.codec_time_base) * den(ac.stream_time_base)
                      >= num(ac.stream_time_base) * den(ac.codec_time_base)
                 THEN /\ ac'.worst_time_base = ac.codec_time_base
                      /\ ac'.worst_time_base_is_stream = 0
                 ELSE /\ ac'.worst_time_base = ac.stream_time_base
                      /\ ac'.worst_time_base_is_stream = 1]_vars

\* A second ready play call, and a flushing uninit, after the stream base
\* was selected.
C12_Witness ==
    /\ call.op = "uninit" /\ call.eos = 1
    /\ hist.plays = 2
    /\ call.before.ac.worst_time_base = <<1, 1>>
    /\ ac.worst_time_base_is_stream = 1

\* The input pts of the last play call: the one the core set, advanced by
\* the samples taken since, or the expected one when none was set.
C13_InputPts ==
    IF input_pts(call.before) = MP_NOPTS_VALUE
    THEN call.before.ac.expected_next_pts
    ELSE input_pts(call.before)

\* The pts of a frame at sample position bufpos taken from the input pts.
C13_FromInput(bufpos) ==
    to_time_base(C13_InputPts + call.before.ectx.offset + bufpos,
                 call.before.ac.codec_time_base)

\* C13 as stated: unless timestamps are copied without being raw, the pts
\* of every frame before the clamp is the input pts plus the encoder offset
\* plus the frame's sample position, in the encoder time base, whatever the
\* number of frames encoded before.
C13_PtsFromInput ==
    (call.op = "play" /\ call.ready /\ ~copy_mode(call.before)) =>
        \A i \in 1..Len(call.frames) :
            call.frames[i].pts0 = C13_FromInput(call.frames[i].bufpos)

\* C13 amended: with raw timestamps the pts before the clamp comes from
\* the input pts as above; with neither raw nor copied timestamps it is the
\* playback position, the count of frames encoded before in the session
\* times the frame size, and the input pts and the offset play no part.
C13_PtsByMode ==
    (call.op = "play" /\ call.ready) =>
        \A i \in 1..Len(call.frames) :
            /\ call.before.ectx.rawts =>
                  call.frames[i].pts0 = C13_FromInput(call.frames[i].bufpos)
            /\ (~call.before.ectx.rawts /\ ~call.before.ectx.copyts) =>
                  call.frames[i].pts0 =
                      to_time_base((call.before.ac.aframecount + i - 1)
                                       * call.before.ac.aframesize,
                                   call.before.ac.codec_time_base)

\* A second batch in raw mode with an offset, whose pts differs from the
\* playback position.
C13_Witness ==
    /\ call.op = "play" /\ call.ready /\ call.before.ectx.rawts
    /\ call.before.ectx.offset = 3
    /\ call.before.ac.aframecount > 0
    /\ Len(call.frames) = 2
    /\ call.frames[2].pts0 # call.frames[2].realapts

\* C14: every step of play and uninit that reads or writes the shared
\* timing context runs while the calling thread holds ectx->lock, and the
\* other stream never sees the timing context between two of play's
\* writes.
C14_TimingUnderLock ==
    /\ sync.pc \in TimingSteps => sync.lock = "ao"
    /\ sync.bare = 0
    /\ sync.mid => sync.lock = "ao"
    /\ ~sync.torn
    /\ sync.vpc \in {"vo_write", "vo_unlock"} => sync.lock = "vo"

\* The other stream asked for the lock and waits while play is between its
\* two writes.
C14_Witness ==
    /\ sync.pc = "play_account" /\ sync.mid
    /\ sync.vpc = "vo_lock" /\ sync.vwaited
    /\ ectx.next_in_pts > 0

\* Between calls the audio output does not hold the lock; a call takes the
\* lock at most once, never while it already holds it, and releases only
\* what it holds.
C19_LockBalanced ==
    /\ sync.pc = "idle" => sync.lock # "ao"
    /\ sync.acq <= 1
    /\ sync.pc \in LockSteps => (sync.lock # "ao" /\ sync.acq = 0)
    /\ sync.pc \in UnlockSteps => (sync.lock = "ao" /\ sync.acq = 1)

\* C19: every return path of init, play and uninit releases the lock it
\* took and none takes it twice, so the lock is free after any sequence of
\* calls, and another stream waiting for the lock always gets it.
C19_LockReleased ==
    /\ []C19_LockBalanced
    /\ (sync.vpc = "vo_lock") ~> (sync.vpc = "vo_write")

\* The other stream holds the lock it waited for, after uninit returned
\* early on an encoder that was not ready.
C19_Witness ==
    /\ sync.pc = "idle" /\ sync.op = "uninit"
    /\ sync.acq = 1 /\ ~sync.ready
    /\ sync.vpc = "vo_write" /\ sync.vwaited

\* The frame budget init computes for frame size f: the frames that fill a
\* quarter of a second, at least one.
C15_Budget(f) ==
    IF CeilDiv(samplerate, 4 * f) > 1 THEN CeilDiv(samplerate, 4 * f) ELSE 1

\* C15: get_space returns frame size times a frame budget that is fixed
\* when the session is opened and is at least 1; no call changes it, it is
\* never less than one frame, and a play call given that many samples on a
\* ready encoder takes at least one frame.
C15_SpaceIsFrameBudget ==
    /\ aoState = "open" =>
          /\ ac.framecount = C15_Budget(ac.aframesize)
          /\ ac.framecount >= 1
    /\ call.op = "get_space" =>
          /\ call.ret = call.after.ac.aframesize
                            * C15_Budget(call.after.ac.aframesize)
          /\ call.ret >= call.after.ac.aframesize
    /\ call.op = "play" =>
          /\ call.after.ac.framecount = call.before.ac.framecount
          /\ call.after.ac.aframesize = call.before.ac.aframesize
    /\ (call.op = "play" /\ call.ready
            /\ call.samples >= call.before.ac.aframesize
                                   * call.before.ac.framecount) =>
          call.ret >= call.before.ac.aframesize

\* get_space asked after a play call took frames, with a budget of more
\* than one frame.
C15_Witness ==
    /\ call.op = "get_space" /\ call.ready
    /\ call.after.ac.aframecount > 0
    /\ call.after.ac.framecount > 1
    /\ call.ret = 2 * call.after.ac.aframesize

\* The larger of two timestamps.
C16_Max(a, b) == IF a > b THEN a ELSE b

\* C16: no play call lowers next_in_pts; in copy mode a play call leaves it
\* at the larger of its previous value and expected_next_pts plus the
\* discontinuity offset, and in every other mode leaves it as it was.
C16_NextInPtsMonotone ==
    call.op = "play" =>
        /\ call.after.ectx.next_in_pts >= call.before.ectx.next_in_pts
        /\ IF copy_mode(call.before)
           THEN call.after.ectx.next_in_pts =
                    C16_Max(call.before.ectx.next_in_pts,
                            call.after.ac.expected_next_pts
                                + call.after.ectx.discontinuity_pts_offset)
           ELSE call.after.ectx.next_in_pts = call.before.ectx.next_in_pts

\* A copy-mode play call whose expected next pts lies before the value the
\* other stream or an earlier call had set.
C16_Witness ==
    /\ call.op = "play" /\ call.ready /\ copy_mode(call.before)
    /\ Len(call.frames) > 0
    /\ call.before.ectx.next_in_pts # MP_NOPTS_VALUE
    /\ call.after.ac.expected_next_pts
           + call.after.ectx.discontinuity_pts_offset
       < call.before.ectx.next_in_pts
    /\ call.after.ectx.next_in_pts = call.before.ectx.next_in_pts

\* A copy-mode play call that raises next_in_pts.
C16_WitnessRaised ==
    /\ call.op = "play" /\ call.ready /\ copy_mode(call.before)
    /\ call.after.ectx.next_in_pts > call.before.ectx.next_in_pts

\* C17: after every play call on a ready encoder, expected_next_pts is the
\* call's input pts (the previous expected_next_pts when none was set) plus
\* the number of samples the call reported as consumed, padded final
\* chunks included.
C17_ExpectedNextPts ==
    (call.op = "play" /\ call.ready) =>
        call.after.ac.expected_next_pts = input_pts(call.before) + call.ret

\* C18: with an encoder that passes each frame's pts on to its packet, the
\* pts written to the muxer, in the stream time base, are strictly
\* increasing, whichever of the two time bases is the coarser one; no two
\* frames are written with the same pts.
C18_MuxPtsStrictlyIncreasing ==
    enc.echo =>
        /\ \A i \in 1..Len(mux) :
              /\ mux[i].pts # AV_NOPTS_VALUE
              /\ mux[i].pts = av_rescale_q(mux[i].enc_pts, ac.codec_time_base,
                                           ac.stream_time_base)
        /\ \A i \in 1..Len(mux), j \in 1..Len(mux) :
              i < j => mux[i].pts < mux[j].pts

\* Two frames of one call whose own pts fall on the same tick of a coarser
\* stream time base, written with different pts.
C18_Witness ==
    /\ call.op = "play" /\ call.ready /\ Len(call.frames) = 2
    /\ call.after.ac.worst_time_base_is_stream = 1
    /\ OwnRef(call.frames[1]) = OwnRef(call.frames[2])
    /\ Len(call.after.mux) >= 2
    /\ call.after.mux[Len(call.after.mux) - 1].pts
           < call.after.mux[Len(call.after.mux)].pts

\* Frames written in a stream time base finer than the encoder's.
C18_WitnessFiner ==
    /\ call.op = "play" /\ call.ready /\ Len(call.frames) = 2
    /\ call.after.ac.stream_time_base = <<1, 2 * samplerate>>
    /\ Len(call.after.mux) >= 3

\* C20: a play call made before the encoder is ready returns 0, submits no
\* frame and leaves the session state and the shared timing context as
\* they were, with or without the final-chunk flag.
C20_NotReadyPlayIsNoOp ==
    (call.op = "play" /\ ~call.before.ectx.started) =>
        /\ call.ret = 0
        /\ call.frames = <<>>
        /\ call.eos = 0
        /\ call.after = call.before

\* A final chunk of more than a frame, no multiple of the frame size,
\* handed over before the encoder is ready.
C20_Witness ==
    /\ call.op = "play" /\ ~call.before.ectx.started
    /\ call.final
    /\ call.samples > call.before.ac.aframesize
    /\ call.samples % call.before.ac.aframesize # 0

\* A non-final batch of whole frames handed over before the encoder is
\* ready.
C20_WitnessNonFinal ==
    /\ call.op = "play" /\ ~call.before.ectx.started
    /\ ~call.final
    /\ call.samples = 2 * call.before.ac.aframesize

====
